---------------------------- MODULE Spec2Model ----------------------------
(***************************************************************************)
(* BigBirdTokenizer (paddlenlp/transformers/bigbird/tokenizer.py).         *)
(*                                                                         *)
(* Python lists are objects with identity: `heap` maps an address to the   *)
(* contents of the list stored there, and the caller's names and the       *)
(* values the methods return are addresses.  An address is named after the *)
(* expression of the source that allocates the list.                       *)
(***************************************************************************)
EXTENDS Integers, Sequences, FiniteSets, TLC

VARIABLES
    sp_model,          \* pieces of the loaded SentencePiece model, by id (id = index - 1)
    extra_ids,         \* self.extra_ids
    heap,              \* address -> contents of the list object at that address
    token_ids_0,       \* the caller's first segment (an address, or None)
    token_ids_1,       \* the caller's second segment (an address, or None)
    offset_mapping_0,  \* the caller's first offset list (an address, or None)
    offset_mapping_1,  \* the caller's second offset list (an address, or None)
    given,             \* contents of the caller's lists when it created them
    ret,               \* per method: the last call's arguments and returned value
    mutations,         \* number of in-place changes the caller made to returned lists
    conv,              \* the last _convert_id_to_token / _convert_token_to_id / vocab_size calls
    call               \* the last __call__: its arguments and what it hands to super().__call__

vars == <<sp_model, extra_ids, heap, token_ids_0, token_ids_1, offset_mapping_0,
          offset_mapping_1, given, ret, mutations, conv, call>>

asmVars == <<heap, token_ids_0, token_ids_1, offset_mapping_0, offset_mapping_1,
             given, ret, mutations>>

-----------------------------------------------------------------------------
(* Bounds *)

\* longest segment the caller passes
MaxLen == 2

\* in-place changes the caller makes to returned lists
MaxMutations == 1

-----------------------------------------------------------------------------
(* Characters and pieces.  A Python str is a sequence of one-character strings. *)

None == "None"

Digits == <<"0", "1", "2", "3", "4", "5", "6", "7", "8", "9">>

IsDigit(c) == \E i \in 1..Len(Digits) : Digits[i] = c

DigitValue(c) == (CHOOSE i \in 1..Len(Digits) : Digits[i] = c) - 1

eos_token == <<"<", "/", "s", ">">>

unk_token == <<"<", "u", "n", "k", ">">>

pad_token == <<"<", "p", "a", "d", ">">>

\* The pieces of a model file, in id order.
SpPieces == <<pad_token, eos_token, unk_token, <<"a">>, <<"_", "b">>>>

\* sp_model.get_piece_size() and len(sp_model)
get_piece_size == Len(sp_model)

\* sp_model.piece_to_id: the piece's id, the unknown id for a piece the model lacks
piece_to_id(piece) ==
    IF \E i \in 1..Len(sp_model) : sp_model[i] = piece
    THEN (CHOOSE i \in 1..Len(sp_model) : sp_model[i] = piece) - 1
    ELSE (CHOOSE i \in 1..Len(sp_model) : sp_model[i] = unk_token) - 1

\* sp_model.IdToPiece
IdToPiece(index) == sp_model[index + 1]

eos_token_id == piece_to_id(eos_token)

\* an id of an ordinary piece
OrdinaryId == piece_to_id(<<"a">>)

TokenIds == {eos_token_id, OrdinaryId}

-----------------------------------------------------------------------------
(* The sequence assembler *)

Addr == {"ids0", "ids1", "om0", "om1", "eos", "eos0", "eos1", "cat",
         "re_eos", "offsets", "types", "mask"}

Methods == {"add_eos", "build_inputs", "rebuild", "offsets", "types", "mask"}

EmptyHeap == [a \in Addr |-> <<>>]

Zeros(n) == [i \in 1..n |-> 0]

\* a call's record: the arguments' contents at the call, the address returned, its
\* contents at return, the number of warnings.warn calls the call made
NotCalled ==
    [called |-> FALSE, pair |-> FALSE, already |-> FALSE, in0 |-> <<>>, in1 |-> <<>>,
     ref |-> None, val |-> <<>>, warned |-> 0]

Returned(h, a0, a1, r, w) ==
    [called |-> TRUE, pair |-> a1 # None, already |-> FALSE, in0 |-> h[a0],
     in1 |-> IF a1 = None THEN <<>> ELSE h[a1],
     ref |-> r, val |-> h[r], warned |-> w]

\* _add_eos_if_not_present with the eos test dropped: always appends
add_eos_always(h, token_ids, site) ==
    [heap |-> [h EXCEPT ![site] = Append(h[token_ids], eos_token_id)],
     ref |-> site, warned |-> 0]

\* _add_eos_if_not_present warning once per element equal to eos
add_eos_warn_each(h, token_ids, site) ==
    IF Len(h[token_ids]) > 0 /\ h[token_ids][Len(h[token_ids])] = eos_token_id
    THEN [heap |-> h, ref |-> token_ids,
          warned |-> Cardinality({i \in 1..Len(h[token_ids]) : h[token_ids][i] = eos_token_id})]
    ELSE [heap |-> [h EXCEPT ![site] = Append(h[token_ids], eos_token_id)],
          ref |-> site, warned |-> 0]

\* _add_eos_if_not_present: the list itself when it already ends with eos (and a
\* warning), a new list `token_ids + [eos]` at `site` otherwise
add_eos_if_not_present(h, token_ids, site) ==
    IF Len(h[token_ids]) > 0 /\ h[token_ids][Len(h[token_ids])] = eos_token_id
    THEN [heap |-> h, ref |-> token_ids, warned |-> 1]
    ELSE [heap |-> [h EXCEPT ![site] = Append(h[token_ids], eos_token_id)],
          ref |-> site, warned |-> 0]

\* build_inputs_with_special_tokens returning the second segment without its eos
build_inputs_no_second_eos(h, a0, a1, s0, s1, scat) ==
    LET r0 == add_eos_if_not_present(h, a0, s0) IN
    IF a1 = None
    THEN r0
    ELSE [heap |-> [r0.heap EXCEPT ![scat] = r0.heap[r0.ref] \o r0.heap[a1]],
          ref |-> scat, warned |-> r0.warned]

\* build_inputs_with_special_tokens
build_inputs_with_special_tokens(h, a0, a1, s0, s1, scat) ==
    LET r0 == add_eos_if_not_present(h, a0, s0) IN
    IF a1 = None
    THEN r0
    ELSE LET r1 == add_eos_if_not_present(r0.heap, a1, s1) IN
         [heap |-> [r1.heap EXCEPT ![scat] = r1.heap[r0.ref] \o r1.heap[r1.ref]],
          ref |-> scat, warned |-> r0.warned + r1.warned]

\* build_offset_mapping_with_special_tokens: always a new list
build_offset_mapping_with_special_tokens(h, om0, om1) ==
    IF om1 = None
    THEN h[om0] \o <<(<<0, 0>>)>>
    ELSE h[om0] \o <<(<<0, 0>>)>> \o h[om1] \o <<(<<0, 0>>)>>

\* create_token_type_ids_from_sequences: always a new list
create_token_type_ids_from_sequences(h, a0, a1) ==
    LET eos == <<eos_token_id>> IN
    IF a1 = None
    THEN Zeros(Len(h[a0] \o eos))
    ELSE Zeros(Len(h[a0] \o eos \o h[a1] \o eos))

\* the special tokens the base tokenizer knows (eos, unk, pad)
all_special_ids == {piece_to_id(eos_token), piece_to_id(unk_token), piece_to_id(pad_token)}

\* the base class's get_special_tokens_mask(already_has_special_tokens=True)
super_get_special_tokens_mask(h, a0) ==
    [i \in 1..Len(h[a0]) |-> IF h[a0][i] \in all_special_ids THEN 1 ELSE 0]

\* get_special_tokens_mask: always a new list
get_special_tokens_mask(h, a0, a1, already_has_special_tokens) ==
    IF already_has_special_tokens
    THEN super_get_special_tokens_mask(h, a0)
    ELSE IF a1 = None
         THEN Zeros(Len(h[a0])) \o <<1>>
         ELSE Zeros(Len(h[a0])) \o <<1>> \o Zeros(Len(h[a1])) \o <<1>>

\* segments the caller may pass
Segments == UNION {[1..n -> TokenIds] : n \in 0..MaxLen}

\* the offsets of a segment of n one-character pieces
Offsets(n) == [i \in 1..n |-> <<i - 1, i>>]

-----------------------------------------------------------------------------
(* Actions of the assembler: the caller's steps *)

\* The caller tokenizes one text, or a pair, into new lists.
NewInput ==
    /\ token_ids_0 = None
    /\ \E ids0 \in Segments, ids1 \in Segments, isPair \in BOOLEAN :
        /\ ids1 # <<>> => isPair
        /\ heap' = [EmptyHeap EXCEPT
                       !["ids0"] = ids0,
                       !["om0"] = Offsets(Len(ids0)),
                       !["ids1"] = IF isPair THEN ids1 ELSE <<>>,
                       !["om1"] = IF isPair THEN Offsets(Len(ids1)) ELSE <<>>]
        /\ token_ids_0' = "ids0"
        /\ offset_mapping_0' = "om0"
        /\ token_ids_1' = IF isPair THEN "ids1" ELSE None
        /\ offset_mapping_1' = IF isPair THEN "om1" ELSE None
        /\ given' = [ids0 |-> ids0, ids1 |-> IF isPair THEN ids1 ELSE <<>>]
        /\ ret' = [m \in Methods |-> NotCalled]
        /\ mutations' = 0
    /\ UNCHANGED <<sp_model, extra_ids, conv, call>>

\* The caller drops its lists and the lists it was returned.
Discard ==
    /\ token_ids_0 # None
    /\ heap' = EmptyHeap
    /\ token_ids_0' = None
    /\ token_ids_1' = None
    /\ offset_mapping_0' = None
    /\ offset_mapping_1' = None
    /\ given' = [ids0 |-> <<>>, ids1 |-> <<>>]
    /\ ret' = [m \in Methods |-> NotCalled]
    /\ mutations' = 0
    /\ UNCHANGED <<sp_model, extra_ids, conv, call>>

\* self._add_eos_if_not_present(token_ids_0)
AddEos ==
    /\ token_ids_0 # None
    /\ LET r == add_eos_if_not_present(heap, token_ids_0, "eos") IN
        /\ heap' = r.heap
        /\ ret' = [ret EXCEPT !["add_eos"] =
                       Returned(r.heap, token_ids_0, None, r.ref, r.warned)]
    /\ UNCHANGED <<sp_model, extra_ids, token_ids_0, token_ids_1, offset_mapping_0,
                   offset_mapping_1, given, mutations, conv, call>>

\* self.build_inputs_with_special_tokens(token_ids_0, token_ids_1).  The parameter
\* token_ids_1 has no default: a caller with one segment passes None.
BuildInputs ==
    /\ token_ids_0 # None
    /\ LET r == build_inputs_with_special_tokens(heap, token_ids_0, token_ids_1,
                                                 "eos0", "eos1", "cat") IN
        /\ heap' = r.heap
        /\ ret' = [ret EXCEPT !["build_inputs"] =
                       Returned(r.heap, token_ids_0, token_ids_1, r.ref, r.warned)]
    /\ UNCHANGED <<sp_model, extra_ids, token_ids_0, token_ids_1, offset_mapping_0,
                   offset_mapping_1, given, mutations, conv, call>>

\* self.build_inputs_with_special_tokens(x, None) with x the list a single-segment
\* build_inputs_with_special_tokens returned
Rebuild ==
    /\ ret["build_inputs"].called
    /\ ~ret["build_inputs"].pair
    /\ LET x == ret["build_inputs"].ref
           r == build_inputs_with_special_tokens(heap, x, None, "re_eos", "re_eos", "re_eos") IN
        /\ heap' = r.heap
        /\ ret' = [ret EXCEPT !["rebuild"] = Returned(r.heap, x, None, r.ref, r.warned)]
    /\ UNCHANGED <<sp_model, extra_ids, token_ids_0, token_ids_1, offset_mapping_0,
                   offset_mapping_1, given, mutations, conv, call>>

\* self.build_offset_mapping_with_special_tokens(offset_mapping_0, offset_mapping_1)
BuildOffsetMapping ==
    /\ offset_mapping_0 # None
    /\ LET h == [heap EXCEPT !["offsets"] =
                    build_offset_mapping_with_special_tokens(heap, offset_mapping_0,
                                                             offset_mapping_1)] IN
        /\ heap' = h
        /\ ret' = [ret EXCEPT !["offsets"] =
                       Returned(h, offset_mapping_0, offset_mapping_1, "offsets", 0)]
    /\ UNCHANGED <<sp_model, extra_ids, token_ids_0, token_ids_1, offset_mapping_0,
                   offset_mapping_1, given, mutations, conv, call>>

\* self.create_token_type_ids_from_sequences(token_ids_0, token_ids_1)
CreateTokenTypeIds ==
    /\ token_ids_0 # None
    /\ LET h == [heap EXCEPT !["types"] =
                    create_token_type_ids_from_sequences(heap, token_ids_0, token_ids_1)] IN
        /\ heap' = h
        /\ ret' = [ret EXCEPT !["types"] =
                       Returned(h, token_ids_0, token_ids_1, "types", 0)]
    /\ UNCHANGED <<sp_model, extra_ids, token_ids_0, token_ids_1, offset_mapping_0,
                   offset_mapping_1, given, mutations, conv, call>>

\* self.get_special_tokens_mask(token_ids_0, token_ids_1, already_has_special_tokens);
\* the base class takes a single list when already_has_special_tokens is true
GetSpecialTokensMask ==
    /\ token_ids_0 # None
    /\ \E already \in BOOLEAN :
        /\ already => token_ids_1 = None
        /\ LET h == [heap EXCEPT !["mask"] =
                        get_special_tokens_mask(heap, token_ids_0, token_ids_1, already)] IN
            /\ heap' = h
            /\ ret' = [ret EXCEPT !["mask"] =
                           [Returned(h, token_ids_0, token_ids_1, "mask", 0)
                               EXCEPT !.already = already]]
    /\ UNCHANGED <<sp_model, extra_ids, token_ids_0, token_ids_1, offset_mapping_0,
                   offset_mapping_1, given, mutations, conv, call>>

\* The caller changes a list it was returned in place: ret.pop()
Mutate ==
    /\ mutations < MaxMutations
    /\ \E m \in Methods :
        /\ ret[m].called
        /\ Len(heap[ret[m].ref]) > 0
        /\ heap' = [heap EXCEPT ![ret[m].ref] = SubSeq(@, 1, Len(@) - 1)]
    /\ mutations' = mutations + 1
    /\ UNCHANGED <<sp_model, extra_ids, token_ids_0, token_ids_1, offset_mapping_0,
                   offset_mapping_1, given, ret, conv, call>>

-----------------------------------------------------------------------------
(* The vocabulary *)

\* extra_ids=100 in __init__
DefaultExtraIds == 100

\* largest extra_ids a tokenizer is constructed with
MaxExtraIds == 11

\* longest text between "<extra_id_" and the rest of a piece passed to _convert_token_to_id
MaxBody == 2

\* ids beyond vocab_size passed to _convert_id_to_token
MaxBeyond == 1

ExtraPrefix == <<"<", "e", "x", "t", "r", "a", "_", "i", "d", "_">>

\* the vocab_size property
vocab_size == get_piece_size + extra_ids

\* str(n) of a natural number
StrNat(n) ==
    LET RECURSIVE digits(_)
        digits(m) == IF m < 10 THEN <<Digits[m + 1]>>
                     ELSE Append(digits(m \div 10), Digits[(m % 10) + 1])
    IN digits(n)

\* str(n), as an f-string formats an int
Str(n) == IF n < 0 THEN <<"-">> \o StrNat(-n) ELSE StrNat(n)

\* int(s) of a string of decimal digits
Int10(s) ==
    LET RECURSIVE value(_)
        value(k) == IF k = 0 THEN 0 ELSE 10 * value(k - 1) + DigitValue(s[k])
    IN value(Len(s))

\* token.startswith(prefix)
startswith(token, prefix) ==
    Len(token) >= Len(prefix) /\ SubSeq(token, 1, Len(prefix)) = prefix

\* number of leading digits of token after its first `from` characters
DigitRun(token, from) ==
    LET RECURSIVE run(_)
        run(n) == IF from + n + 1 <= Len(token) /\ IsDigit(token[from + n + 1])
                  THEN run(n + 1) ELSE n
    IN run(0)

\* re.match(r"<extra_id_(\d+)>", token): group(1), or None.  The pattern is
\* anchored at the start only; \d+ takes the whole run of digits, and giving
\* some back never helps since a digit is not ">".
re_match_extra_id(token) ==
    LET n == DigitRun(token, Len(ExtraPrefix))
        close == Len(ExtraPrefix) + n + 1
    IN IF /\ startswith(token, ExtraPrefix)
          /\ n >= 1
          /\ close <= Len(token)
          /\ token[close] = ">"
       THEN [matched |-> TRUE, group1 |-> SubSeq(token, Len(ExtraPrefix) + 1, close - 1)]
       ELSE [matched |-> FALSE, group1 |-> <<>>]

\* _convert_token_to_id answering the unknown id for a label that does not parse
convert_token_to_id_lenient(token) ==
    IF startswith(token, ExtraPrefix) /\ re_match_extra_id(token).matched
    THEN [outcome |-> "returned", id |-> vocab_size - Int10(re_match_extra_id(token).group1) - 1]
    ELSE [outcome |-> "returned", id |-> piece_to_id(token)]

\* _convert_token_to_id counting extra ids up from the base vocabulary
convert_token_to_id_ascending(token) ==
    IF startswith(token, ExtraPrefix)
    THEN LET match == re_match_extra_id(token) IN
         IF ~match.matched
         THEN [outcome |-> "raised", id |-> 0]
         ELSE [outcome |-> "returned", id |-> get_piece_size + Int10(match.group1)]
    ELSE [outcome |-> "returned", id |-> piece_to_id(token)]

\* _convert_token_to_id: match.group(1) on a failed match (None) raises
convert_token_to_id(token) ==
    IF startswith(token, ExtraPrefix)
    THEN LET match == re_match_extra_id(token) IN
         IF ~match.matched
         THEN [outcome |-> "raised", id |-> 0]
         ELSE [outcome |-> "returned", id |-> vocab_size - Int10(match.group1) - 1]
    ELSE [outcome |-> "returned", id |-> piece_to_id(token)]

\* _convert_id_to_token
convert_id_to_token(index) ==
    IF index < get_piece_size
    THEN IdToPiece(index)
    ELSE ExtraPrefix \o Str(vocab_size - 1 - index) \o <<">">>

BodyChars == {"0", "1", "x"}

Bodies == UNION {[1..n -> BodyChars] : n \in 0..MaxBody}

Tails == {<<>>, <<">">>, <<">", "x">>}

\* pieces the caller may pass to _convert_token_to_id
InputTokens ==
    {ExtraPrefix \o b \o t : b \in Bodies, t \in Tails}
        \cup {SpPieces[i] : i \in 1..Len(SpPieces)}
        \cup {<<"z">>, <<"<", "e", "x", "t", "r", "a", "_", "i", "d">>}

NoConv ==
    [i2t |-> [called |-> FALSE, index |-> 0, token |-> <<>>],
     t2i |-> [called |-> FALSE, token |-> <<>>, outcome |-> "none", id |-> 0]]

\* self._convert_id_to_token(index)
ConvertIdToToken ==
    /\ ~conv.i2t.called
    /\ \E index \in 0..(vocab_size + MaxBeyond) :
        conv' = [conv EXCEPT !.i2t =
                    [called |-> TRUE, index |-> index, token |-> convert_id_to_token(index)]]
    /\ UNCHANGED <<sp_model, extra_ids, asmVars, call>>

\* self._convert_token_to_id(token), token given by the caller or the piece
\* _convert_id_to_token returned last
ConvertTokenToId ==
    /\ ~conv.t2i.called
    /\ \E token \in InputTokens \cup (IF conv.i2t.called THEN {conv.i2t.token} ELSE {}) :
        LET r == convert_token_to_id(token) IN
        conv' = [conv EXCEPT !.t2i =
                    [called |-> TRUE, token |-> token, outcome |-> r.outcome, id |-> r.id]]
    /\ UNCHANGED <<sp_model, extra_ids, asmVars, call>>

\* The caller drops the pieces and ids it was returned.
Forget ==
    /\ conv # NoConv
    /\ conv' = NoConv
    /\ UNCHANGED <<sp_model, extra_ids, asmVars, call>>

-----------------------------------------------------------------------------
(* __call__: the legacy keyword arguments.  Python values are written as strings. *)

PaddingArgs == {None, "False", "longest", "max_length"}

MaxLengthArgs == {None, "128"}

TruncationArgs == {"longest_first", "only_second", "True"}

LegacyKeys == {"pad_to_max_seq_len", "max_seq_len", "truncation_strategy"}

LegacyValues(key) ==
    CASE key = "pad_to_max_seq_len" -> {"True", "False"}
      [] key = "max_seq_len" -> {"64", "512"}
      [] key = "truncation_strategy" -> {"longest_first", "only_first", "do_not_truncate"}

\* the **kwargs dictionaries the caller may pass
KwargsArgs ==
    {kw \in UNION {[K -> UNION {LegacyValues(k) : k \in LegacyKeys}] : K \in SUBSET LegacyKeys} :
        \A k \in DOMAIN kw : kw[k] \in LegacyValues(k)}

\* bool(v)
Truthy(v) == v \notin {"False", None, "0"}

\* kwargs.pop(key), the dictionary left
Pop(kwargs, key) == [k \in DOMAIN kwargs \ {key} |-> kwargs[k]]

\* __call__ letting pad_to_max_seq_len override an explicit padding
bigbird_call_alias_first(padding, max_length, truncation, kwargs) ==
    [padding |-> IF "pad_to_max_seq_len" \in DOMAIN kwargs
                 THEN (IF Truthy(kwargs["pad_to_max_seq_len"]) THEN "max_length" ELSE "False")
                 ELSE IF padding = None THEN "False" ELSE padding,
     max_length |-> IF "max_seq_len" \in DOMAIN kwargs
                    THEN kwargs["max_seq_len"] ELSE max_length,
     truncation |-> IF "truncation_strategy" \in DOMAIN kwargs
                    THEN kwargs["truncation_strategy"] ELSE truncation,
     kwargs |-> Pop(kwargs, "pad_to_max_seq_len")]

\* __call__: the arguments it hands to super().__call__
bigbird_call(padding, max_length, truncation, kwargs) ==
    [padding |-> IF "pad_to_max_seq_len" \in DOMAIN kwargs /\ padding = None
                 THEN (IF Truthy(kwargs["pad_to_max_seq_len"]) THEN "max_length" ELSE "False")
                 ELSE IF padding = None THEN "False" ELSE padding,
     max_length |-> IF "max_seq_len" \in DOMAIN kwargs /\ max_length = None
                    THEN kwargs["max_seq_len"] ELSE max_length,
     truncation |-> IF /\ "truncation_strategy" \in DOMAIN kwargs
                       /\ kwargs["truncation_strategy"] # "longest_first"
                    THEN kwargs["truncation_strategy"] ELSE truncation,
     kwargs |-> IF "pad_to_max_seq_len" \in DOMAIN kwargs /\ padding = None
                THEN Pop(kwargs, "pad_to_max_seq_len") ELSE kwargs]

NoCall ==
    [called |-> FALSE, padding |-> None, max_length |-> None,
     truncation |-> "longest_first", kwargs |-> <<>>,
     super |-> [padding |-> None, max_length |-> None, truncation |-> "longest_first",
                kwargs |-> <<>>]]

\* tokenizer(text, ..., padding=, max_length=, truncation=, **kwargs)
Call ==
    /\ \E padding \in PaddingArgs, max_length \in MaxLengthArgs,
          truncation \in TruncationArgs, kwargs \in KwargsArgs :
        call' = [called |-> TRUE, padding |-> padding, max_length |-> max_length,
                 truncation |-> truncation, kwargs |-> kwargs,
                 super |-> bigbird_call(padding, max_length, truncation, kwargs)]
    /\ UNCHANGED <<sp_model, extra_ids, asmVars, conv>>

-----------------------------------------------------------------------------
(* Specifications *)

\* the model files a tokenizer may load: every one holds pad, eos and unk
LoadableModels == {SubSeq(SpPieces, 1, n) : n \in 3..Len(SpPieces)}

\* no caller has passed anything yet
Fresh ==
    /\ heap = EmptyHeap
    /\ token_ids_0 = None
    /\ token_ids_1 = None
    /\ offset_mapping_0 = None
    /\ offset_mapping_1 = None
    /\ given = [ids0 |-> <<>>, ids1 |-> <<>>]
    /\ ret = [m \in Methods |-> NotCalled]
    /\ mutations = 0
    /\ conv = NoConv
    /\ call = NoCall

\* BigBirdTokenizer(sentencepiece_model_file): extra_ids takes its default
Init ==
    /\ sp_model = SpPieces
    /\ extra_ids = DefaultExtraIds
    /\ Fresh

\* BigBirdTokenizer(sentencepiece_model_file, extra_ids=n)
InitVocab ==
    /\ sp_model \in LoadableModels
    /\ extra_ids \in 0..MaxExtraIds
    /\ Fresh

Next ==
    \/ NewInput
    \/ Discard
    \/ AddEos
    \/ BuildInputs
    \/ Rebuild
    \/ BuildOffsetMapping
    \/ CreateTokenTypeIds
    \/ GetSpecialTokensMask
    \/ Mutate

NextVocab ==
    \/ ConvertIdToToken
    \/ ConvertTokenToId
    \/ Forget

NextCall == Call

\* the sequence assembler
Spec == Init /\ [][Next]_vars

\* the vocabulary
SpecVocab == InitVocab /\ [][NextVocab]_vars

\* the call entry point
SpecCall == Init /\ [][NextCall]_vars

-----------------------------------------------------------------------------
(* Properties *)

\* a segment that already ends with the end-of-sequence id
Terminated(ids) == Len(ids) > 0 /\ ids[Len(ids)] = eos_token_id

\* ensureEosSuffix on contents
EnsureEos(ids) == IF Terminated(ids) THEN ids ELSE Append(ids, eos_token_id)

\* two calls were given lists of the same contents
SameInputs(r, q) == r.pair = q.pair /\ r.in0 = q.in0 /\ r.in1 = q.in1

C2_TypeIdsLength ==
    LET t == ret["types"]
        b == ret["build_inputs"]
    IN t.called =>
        /\ \A i \in 1..Len(t.val) : t.val[i] = 0
        /\ (b.called /\ SameInputs(t, b)) => Len(t.val) = Len(b.val)

\* C3: for offset lists as long as the id lists, the offset mapping and the
\* special tokens mask (already_has_special_tokens false) are exactly as long as
\* the ids build_inputs_with_special_tokens gives for the same segments.
C3_ParallelLengths ==
    LET o == ret["offsets"]
        m == ret["mask"]
        b == ret["build_inputs"]
    IN b.called =>
        /\ (/\ o.called /\ o.pair = b.pair
            /\ Len(o.in0) = Len(b.in0) /\ Len(o.in1) = Len(b.in1)) =>
               Len(o.val) = Len(b.val)
        /\ (m.called /\ ~m.already /\ SameInputs(m, b)) => Len(m.val) = Len(b.val)

\* C4: with already_has_special_tokens false, the mask is 1 only at indices of the
\* assembled ids that hold eos, it is 0 wherever the assembled ids hold an id taken
\* from a segment, and the offset mapping holds (0,0) where the mask is 1.
C4_MaskMarksAppendedEos ==
    LET m == ret["mask"]
        b == ret["build_inputs"]
        o == ret["offsets"]
    IN (m.called /\ ~m.already /\ b.called /\ SameInputs(m, b)) =>
        /\ \A i \in 1..Len(m.val) :
               m.val[i] = 1 => (i <= Len(b.val) /\ b.val[i] = eos_token_id)
        /\ \A i \in 1..Len(b.in0) : i <= Len(m.val) /\ m.val[i] = 0
        /\ \A j \in 1..Len(b.in1) :
               /\ Len(EnsureEos(b.in0)) + j <= Len(m.val)
               /\ m.val[Len(EnsureEos(b.in0)) + j] = 0
        /\ (/\ o.called /\ o.pair = m.pair
            /\ Len(o.in0) = Len(m.in0) /\ Len(o.in1) = Len(m.in1)) =>
               \A i \in 1..Len(m.val) :
                   m.val[i] = 1 => (i <= Len(o.val) /\ o.val[i] = <<0, 0>>)

\* C5: build_inputs_with_special_tokens applied to its own single-segment output
\* gives the same contents again, ending with eos, with no further eos appended.
C5_Idempotent ==
    LET b == ret["build_inputs"]
        rb == ret["rebuild"]
    IN (b.called /\ ~b.pair /\ rb.called /\ rb.in0 = b.val) =>
        /\ rb.val = b.val
        /\ Len(rb.val) = Len(b.val)
        /\ Terminated(rb.val)
        /\ Len(b.val) <= Len(b.in0) + 1

\* C5 witness: the assembled form of an unterminated segment of two ids was
\* assembled again
C5_Witness ==
    LET b == ret["build_inputs"]
        rb == ret["rebuild"]
    IN /\ b.called /\ ~b.pair /\ rb.called /\ rb.in0 = b.val
       /\ Len(b.in0) = 2 /\ ~Terminated(b.in0)
       /\ Len(rb.val) = 3

\* C7: _add_eos_if_not_present warns exactly once when its input is non-empty and
\* ends with eos, and then returns the same contents; otherwise it does not warn
\* and returns the input with eos appended.  A pair call to
\* build_inputs_with_special_tokens warns once per segment that already ends with
\* eos, not once per element.
C7_WarnOncePerTerminatedSegment ==
    LET a == ret["add_eos"]
        b == ret["build_inputs"]
        n(ids) == IF Terminated(ids) THEN 1 ELSE 0
    IN /\ a.called =>
            /\ a.warned = n(a.in0)
            /\ Terminated(a.in0) => a.val = a.in0
            /\ ~Terminated(a.in0) => a.val = Append(a.in0, eos_token_id)
       /\ b.called =>
            b.warned = n(b.in0) + (IF b.pair THEN n(b.in1) ELSE 0)

\* C7 witness: a pair of segments that both end with eos, the first holding eos
\* twice, was assembled with two warnings
C7_Witness ==
    LET b == ret["build_inputs"] IN
    /\ b.called /\ b.pair
    /\ b.in0 = <<eos_token_id, eos_token_id>>
    /\ Terminated(b.in1)
    /\ b.warned = 2

\* C10: no build method changes the caller's lists, and the list it returns is
\* none of the caller's lists: a change the caller makes to a returned list never
\* shows in token_ids_0, token_ids_1 or the offset lists.
C10_ReturnsFreshList ==
    token_ids_0 # None =>
        /\ heap[token_ids_0] = given.ids0
        /\ token_ids_1 # None => heap[token_ids_1] = given.ids1
        /\ heap[offset_mapping_0] = Offsets(Len(given.ids0))
        /\ offset_mapping_1 # None => heap[offset_mapping_1] = Offsets(Len(given.ids1))
        /\ \A m \in {"build_inputs", "offsets", "types", "mask"} :
               ret[m].called =>
                   ret[m].ref \notin {token_ids_0, token_ids_1,
                                      offset_mapping_0, offset_mapping_1}

\* the label <extra_id_{k}> for k below 100, digit by digit
ExtraLabel(k) ==
    ExtraPrefix
        \o (IF k < 10 THEN <<Digits[k + 1]>>
            ELSE <<Digits[(k \div 10) + 1], Digits[(k % 10) + 1]>>)
        \o <<">">>

\* C6: k -> vocab_size - 1 - k maps the extra indices 0..extra_ids-1 one to one
\* onto the ids from the base vocabulary size up to vocab_size, none of them a base
\* id; _convert_id_to_token of such an id is <extra_id_{k}>, and
\* _convert_token_to_id of that label is the id again.
C6_ExtraIdRoundTrip ==
    LET base == get_piece_size
        f == [k \in 0..(extra_ids - 1) |-> vocab_size - 1 - k]
    IN /\ {f[k] : k \in DOMAIN f} = base..(vocab_size - 1)
       /\ \A j, k \in DOMAIN f : f[j] = f[k] => j = k
       /\ {f[k] : k \in DOMAIN f} \cap 0..(base - 1) = {}
       /\ (conv.i2t.called /\ conv.i2t.index \in base..(vocab_size - 1)) =>
            /\ conv.i2t.token = ExtraLabel(vocab_size - 1 - conv.i2t.index)
            /\ (conv.t2i.called /\ conv.t2i.token = conv.i2t.token) =>
                   /\ conv.t2i.outcome = "returned"
                   /\ conv.t2i.id = conv.i2t.index

\* C6 witness: the id of extra index 10 was turned into its label and back
C6_Witness ==
    /\ conv.i2t.called /\ conv.t2i.called
    /\ extra_ids > 10
    /\ conv.i2t.index = vocab_size - 1 - 10
    /\ conv.t2i.token = conv.i2t.token
    /\ conv.t2i.id = conv.i2t.index

\* a piece that is "<extra_id_", one or more decimal digits and ">", possibly
\* followed by more
WellFormedLabel(token) ==
    /\ startswith(token, ExtraPrefix)
    /\ \E n \in 1..Len(token) :
        /\ Len(ExtraPrefix) + n + 1 <= Len(token)
        /\ \A j \in 1..n : IsDigit(token[Len(ExtraPrefix) + j])
        /\ token[Len(ExtraPrefix) + n + 1] = ">"

\* the digits of a well-formed label
LabelDigits(token) ==
    LET n == CHOOSE n \in 1..Len(token) :
                 /\ Len(ExtraPrefix) + n + 1 <= Len(token)
                 /\ \A j \in 1..n : IsDigit(token[Len(ExtraPrefix) + j])
                 /\ token[Len(ExtraPrefix) + n + 1] = ">"
    IN SubSeq(token, Len(ExtraPrefix) + 1, Len(ExtraPrefix) + n)

\* C9: _convert_token_to_id of a piece that starts with "<extra_id_" but is not a
\* well-formed label raises and returns no id; of a well-formed label whose index
\* k is extra_ids or more it returns vocab_size - 1 - k, an id outside the extra
\* range.
C9_MalformedLabelRaises ==
    LET c == conv.t2i IN
    (c.called /\ startswith(c.token, ExtraPrefix)) =>
        /\ ~WellFormedLabel(c.token) => c.outcome = "raised"
        /\ WellFormedLabel(c.token) =>
            LET k == Int10(LabelDigits(c.token)) IN
            k >= extra_ids =>
                /\ c.outcome = "returned"
                /\ c.id = vocab_size - 1 - k
                /\ c.id \notin get_piece_size..(vocab_size - 1)

\* C9 witness: the label with a non-numeric index was passed and the call raised
C9_Witness ==
    /\ conv.t2i.called
    /\ conv.t2i.token = ExtraPrefix \o <<"x", ">">>
    /\ conv.t2i.outcome = "raised"

\* C8: the padding handed on is the explicit padding when one was given, else
\* "max_length" for a true pad_to_max_seq_len and False for a false or absent one;
\* the max_length handed on is the explicit one when given, else max_seq_len when
\* present; the truncation handed on is truncation_strategy when present and not
\* "longest_first", else the truncation argument.
C8_LegacyKeywords ==
    LET has(k) == k \in DOMAIN call.kwargs IN
    call.called =>
        /\ call.super.padding =
               (IF call.padding # None THEN call.padding
                ELSE IF has("pad_to_max_seq_len") /\ call.kwargs["pad_to_max_seq_len"] = "True"
                     THEN "max_length" ELSE "False")
        /\ call.super.max_length =
               (IF call.max_length # None THEN call.max_length
                ELSE IF has("max_seq_len") THEN call.kwargs["max_seq_len"] ELSE None)
        /\ call.super.truncation =
               (IF has("truncation_strategy") /\ call.kwargs["truncation_strategy"] # "longest_first"
                THEN call.kwargs["truncation_strategy"] ELSE call.truncation)

\* C8 witness: padding="longest" was passed together with pad_to_max_seq_len=True
C8_Witness ==
    /\ call.called
    /\ call.padding = "longest"
    /\ "pad_to_max_seq_len" \in DOMAIN call.kwargs
    /\ call.kwargs["pad_to_max_seq_len"] = "True"
    /\ call.super.padding = "longest"
=============================================================================
